---- MODULE Spec2Model ----
(***************************************************************************)
(* Model of src/data.py: the Starlink ground-track pipeline.               *)
(*                                                                         *)
(* Python str values are sequences of one-character strings.  A datetime   *)
(* is a number of minutes since the start of proleptic-Gregorian ordinal   *)
(* day 0 (resolution: one minute); a timedelta is a number of minutes.     *)
(* The epochs and clock readings of the model are multiples of 9 minutes,  *)
(* which a fractional day of five decimals denotes exactly.                *)
(* Angles are whole degrees.                                               *)
(***************************************************************************)
EXTENDS Integers, Sequences, FiniteSets, TLC

VARIABLES
    satellites,          \* the catalog: sequence of [satellite_name, line1, line2]
    start_time,          \* datetime.utcnow() of the run (line 198)
    duration_hours,      \* line 199
    time_step_minutes,   \* line 200
    features,            \* line 195
    skipped_satellites,  \* line 196
    pc,                  \* position of the script: "loop", "gen", "done", "crashed"
    idx,                 \* 1-based position of the for loop of line 202
    trajectory,          \* generate_trajectory_with_timestamps: local list
    timestamps,          \* generate_trajectory_with_timestamps: local list
    current_time,        \* generate_trajectory_with_timestamps: local
    step,                \* number of iterations of the loop of line 172 begun so far
    call,                \* a direct call of one of the helper functions
    ret                  \* its return value

vars == <<satellites, start_time, duration_hours, time_step_minutes, features,
          skipped_satellites, pc, idx, trajectory, timestamps, current_time,
          step, call, ret>>

-----------------------------------------------------------------------------
(* Bounds of the model *)

MaxSats == 2
MaxPts == 3
MaxDuration == 1

-----------------------------------------------------------------------------
(* Python str *)

Digits == <<"0", "1", "2", "3", "4", "5", "6", "7", "8", "9">>

IsDigit(c) == \E d \in 1..10 : Digits[d] = c

DigitVal(c) == (CHOOSE d \in 1..10 : Digits[d] = c) - 1

\* ord(c) for the characters the model uses
Ord(c) ==
    CASE c = " " -> 32
      [] c = "-" -> 45
      [] c = "." -> 46
      [] IsDigit(c) -> 48 + DigitVal(c)
      [] c = "A" -> 65
      [] c = "L" -> 76
      [] c = "U" -> 85
      [] OTHER -> 97

\* s[a:b] for 0 <= a <= b
Slice(s, a, b) == SubSeq(s, a + 1, IF b < Len(s) THEN b ELSE Len(s))

\* a > b on str: lexicographic by code point, a proper prefix is smaller
RECURSIVE StrGT(_, _)
StrGT(a, b) ==
    IF a = <<>> THEN FALSE
    ELSE IF b = <<>> THEN TRUE
    ELSE IF Ord(Head(a)) # Ord(Head(b)) THEN Ord(Head(a)) > Ord(Head(b))
    ELSE StrGT(Tail(a), Tail(b))

RECURSIVE LStrip(_)
LStrip(s) == IF s # <<>> /\ Head(s) = " " THEN LStrip(Tail(s)) ELSE s

RECURSIVE RStrip(_)
RStrip(s) ==
    IF s # <<>> /\ s[Len(s)] = " " THEN RStrip(SubSeq(s, 1, Len(s) - 1)) ELSE s

Strip(s) == RStrip(LStrip(s))

AllDigits(s) == \A i \in 1..Len(s) : IsDigit(s[i])

\* value of a digit string, saturating at 10^9 (beyond every limit used below)
RECURSIVE DigitsValue(_, _)
DigitsValue(s, acc) ==
    IF s = <<>> THEN acc
    ELSE IF acc >= 100000000 THEN 1000000000
    ELSE DigitsValue(Tail(s), acc * 10 + DigitVal(Head(s)))

\* int(s): surrounding blanks are ignored, then decimal digits; else ValueError
ParseInt(s) ==
    LET t == Strip(s) IN
    IF t # <<>> /\ AllDigits(t)
    THEN [ok |-> TRUE, v |-> DigitsValue(t, 0)]
    ELSE [ok |-> FALSE, v |-> 0]

DotPositions(t) == {i \in 1..Len(t) : t[i] = "."}

\* the first five fractional digits of a day, as whole minutes of the day
FracMinutes(f) ==
    LET f5 == SubSeq(f \o <<"0", "0", "0", "0", "0">>, 1, 5) IN
    (DigitsValue(f5, 0) * 1440) \div 100000

\* float(s) of a non-negative decimal: [ok, days, mins], or ValueError
ParseFloat(s) ==
    LET t == Strip(s)
        dots == DotPositions(t)
        p == IF dots = {} THEN Len(t) + 1 ELSE CHOOSE i \in dots : \A j \in dots : i <= j
        ip == SubSeq(t, 1, p - 1)
        fp == SubSeq(t, p + 1, Len(t))
    IN  IF /\ Cardinality(dots) <= 1
           /\ AllDigits(ip) /\ AllDigits(fp)
           /\ Len(ip) + Len(fp) > 0
        THEN [ok |-> TRUE, days |-> DigitsValue(ip, 0), mins |-> FracMinutes(fp)]
        ELSE [ok |-> FALSE, days |-> 0, mins |-> 0]

-----------------------------------------------------------------------------
(* datetime *)

\* datetime(y, 1, 1).toordinal()
Ordinal(y) ==
    365 * (y - 1) + (y - 1) \div 4 - (y - 1) \div 100 + (y - 1) \div 400 + 1

\* datetime.max.toordinal(): 9999-12-31
MAXORDINAL == 3652059

\* timedelta.max.days
MAXDELTADAYS == 999999999

-----------------------------------------------------------------------------
(* get_launch_group, lines 60-69 *)

Unknown == <<"U", "n", "k", "n", "o", "w", "n">>

LaunchInfix == <<"-", "L", "a", "u", "n", "c", "h", "-">>

\* lines 62-66 slice and concatenate str values: none of them raises
LaunchGroupRaises(line1) == FALSE

launch_year(international_designator) ==
    IF StrGT(Slice(international_designator, 0, 2), <<"5", "7">>)
    THEN <<"1", "9">> \o Slice(international_designator, 0, 2)
    ELSE <<"2", "0">> \o Slice(international_designator, 0, 2)

get_launch_group(line1) ==
    IF LaunchGroupRaises(line1) THEN Unknown
    ELSE LET international_designator == Slice(line1, 9, 17)
             launch_number == Slice(international_designator, 2, 5)
         IN  launch_year(international_designator) \o LaunchInfix \o launch_number

-----------------------------------------------------------------------------
(* is_tle_valid, lines 71-84 *)

MaxAgeDays == 30

\* line 78
epoch_year(yy) == yy + (IF yy < 57 THEN 2000 ELSE 1900)

Returns(b) == [exc |-> "None", val |-> b]
Raises(e) == [exc |-> e, val |-> FALSE]

\* the comparison of line 81 made inclusive
Fresh_Inclusive(days_diff) == days_diff <= MaxAgeDays

\* line 81
Fresh(days_diff) == days_diff < MaxAgeDays

\* utcnow is the value datetime.utcnow() returns at line 80
is_tle_valid(line1, utcnow) ==
    IF Len(line1) < 32 THEN Returns(FALSE)
    ELSE
      LET y == ParseInt(Slice(line1, 18, 20))
          d == ParseFloat(Slice(line1, 20, 32))
      IN
      IF ~y.ok \/ ~d.ok THEN Returns(FALSE)        \* ValueError, caught at line 82
      ELSE
        LET day == Ordinal(epoch_year(y.v)) + (d.days - 1) IN
        IF d.days - 1 > MAXDELTADAYS \/ day < 1 \/ day > MAXORDINAL
        THEN Raises("OverflowError")                \* line 79, not caught at line 82
        ELSE \* (utcnow - epoch_date).days, epoch_date being day * 1440 + d.mins
             LET days_diff == (utcnow \div 1440 - day)
                                  + (((utcnow % 1440) - d.mins) \div 1440)
             IN  Returns(Fresh(days_diff))

-----------------------------------------------------------------------------
(* is_valid_point, lines 142-143, and ecef_to_geodetic's normalisation *)

\* a float NaN: unordered with respect to every number
NaN == 99999

FloatLe(a, b) == a # NaN /\ b # NaN /\ a <= b

is_valid_point(lat, lon) ==
    FloatLe(-90, lat) /\ FloatLe(lat, 90) /\ FloatLe(-180, lon) /\ FloatLe(lon, 180)

\* line 131
lon_deg(deg) == IF deg = NaN THEN NaN ELSE ((deg + 180) % 360) - 180

-----------------------------------------------------------------------------
(* fix_idl_crossings, lines 145-164; a point is <<lon, lat, alt>> *)

\* lines 158-159 left out: only eastward jumps are unwrapped
Adjust_EastOnly(offset, diff) == IF diff > 180 THEN offset - 360 ELSE offset

\* lines 157 and 159 with half a turn instead of a full one
Adjust_HalfTurn(offset, diff) ==
    IF diff > 180 THEN offset - 180
    ELSE IF diff < -180 THEN offset + 180
    ELSE offset

Adjust(offset, diff) ==
    IF diff > 180 THEN offset - 360
    ELSE IF diff < -180 THEN offset + 360
    ELSE offset

RECURSIVE FixFrom(_, _, _, _)
FixFrom(traj, i, offset, fixed) ==
    IF i > Len(traj) THEN fixed
    ELSE LET lon == traj[i][1]
             off == IF i = 1 THEN offset
                    ELSE Adjust(offset, (lon + offset) - fixed[i - 1][1])
         IN  FixFrom(traj, i + 1, off,
                     Append(fixed, <<lon + off, traj[i][2], traj[i][3]>>))

fix_idl_crossings(traj) == IF traj = <<>> THEN <<>> ELSE FixFrom(traj, 1, 0, <<>>)

-----------------------------------------------------------------------------
(* The inputs of the model *)

\* zero-padded decimal of width w
RECURSIVE FormatInt(_, _)
FormatInt(n, w) ==
    IF w = 0 THEN <<>> ELSE Append(FormatInt(n \div 10, w - 1), Digits[(n % 10) + 1])

\* the 12-character epoch day field for day-of-year doy and minute m of that day
FormatDay(doy, m) ==
    FormatInt(doy, 3) \o <<".">> \o FormatInt((m * 100000 + 1439) \div 1440, 5)
        \o <<"0", "0", "0">>

Blank(n) == [i \in 1..n |-> " "]

\* a line1 of 33 characters: columns [9:17) designator, [18:20) and [20:32) epoch
Line1Of(desig, yy, day) ==
    <<"1", " ", "4", "4", "7", "1", "3", "U", " ">> \o desig \o <<" ">> \o yy \o day
        \o <<" ">>

GoodDesignator == <<"1", "9", "0", "7", "4", "A", " ", " ">>

\* 2026-11-02 00:00
RunDay == Ordinal(2026) + 305

FreshLine == Line1Of(GoodDesignator, FormatInt(26, 2), FormatDay(300, 0))
BlankDesignatorLine == Line1Of(Blank(8), FormatInt(26, 2), FormatDay(300, 0))
StaleLine == Line1Of(GoodDesignator, FormatInt(26, 2), FormatDay(100, 0))
ShortLine == Slice(FreshLine, 0, 20)
NonNumericLine == Line1Of(GoodDesignator, FormatInt(26, 2), <<"A">> \o Blank(11))
UnrepresentableLine ==
    Line1Of(GoodDesignator, FormatInt(26, 2), [i \in 1..12 |-> "9"])

RejectedLines == {StaleLine, ShortLine, NonNumericLine, UnrepresentableLine}

\* What the external propagator does with an element set: whether twoline2rv
\* raises, the call (1-based) at which sgp4 reports an error (0: never), the
\* calls whose position is not finite, and the ground track it returns.
Profile(pe, ea, dr, l0, dl) ==
    [parse_error |-> pe, err_at |-> ea, drop |-> dr, lon0 |-> l0, dlon |-> dl]

NominalProfile == Profile(FALSE, 0, "none", 170, 20)

Profiles ==
    { NominalProfile,
      Profile(FALSE, 0, "all", 170, 20),
      Profile(FALSE, 0, "even", -170, -20),
      Profile(FALSE, 1, "none", 170, 20),
      Profile(FALSE, 3, "even", 170, 20),
      Profile(TRUE, 0, "none", 170, 20) }

\* the propagator is consulted only for an element set that passes the gate
Entries ==
    ({FreshLine} \X Profiles)
        \cup (({BlankDesignatorLine} \cup RejectedLines) \X {NominalProfile})

Catalogs ==
    UNION { { [i \in 1..n |-> [satellite_name |-> i, line1 |-> f[i][1], line2 |-> f[i][2]]]
              : f \in [1..n -> Entries] } : n \in 0..MaxSats }

StartTimes == {RunDay * 1440 + 36, RunDay * 1440 + 1431}

StepChoices == {20, 25}

-----------------------------------------------------------------------------
(* The external propagator and the frame transformer *)

\* satellite.sgp4(jd, fr) at the k-th call: the error code
error_code(profile, k) == IF profile.err_at = k THEN 1 ELSE 0

Dropped(profile, k) ==
    \/ profile.drop = "all"
    \/ profile.drop = "even" /\ k % 2 = 0

\* teme_to_latlonalt(position, jd, fr) at the k-th call: <<lat, lon, alt>>
teme_to_latlonalt(profile, k) ==
    IF Dropped(profile, k) THEN <<NaN, NaN, NaN>>
    ELSE <<0, lon_deg(profile.lon0 + (k - 1) * profile.dlon), 550000>>

\* current_time.isoformat()
isoformat(t) ==
    [date |-> t \div 1440, hh |-> (t % 1440) \div 60, mm |-> t % 60]

-----------------------------------------------------------------------------
(* Part 3: the script's loop, lines 194-228 *)

NoCall == [fn |-> "none"]

Init ==
    /\ satellites \in Catalogs
    /\ start_time \in StartTimes
    /\ duration_hours \in 1..MaxDuration
    /\ time_step_minutes \in StepChoices
    /\ features = <<>>
    /\ skipped_satellites = <<>>
    /\ pc = "loop"
    /\ idx = 1
    /\ trajectory = <<>>
    /\ timestamps = <<>>
    /\ current_time = start_time
    /\ step = 0
    /\ call = NoCall
    /\ ret = NoCall

\* line 170 rounding up instead of truncating
total_steps_RoundedUp ==
    (duration_hours * 60 + time_step_minutes - 1) \div time_step_minutes

\* line 170
total_steps == (duration_hours * 60) \div time_step_minutes

AtEntry == pc = "loop" /\ idx <= Len(satellites)

InLoop == pc = "gen" /\ step < total_steps

Feature(name, coords, stamps, group) ==
    [name |-> name, coordinates |-> coords, timestamps |-> stamps,
     launch_group |-> group]

Entry == satellites[idx]

\* line 203; the clock is read within a minute of start_time
Gate == is_tle_valid(Entry.line1, start_time)

Locals == <<trajectory, timestamps, current_time, step>>
Inputs == <<satellites, start_time, duration_hours, time_step_minutes>>

ResetLocals ==
    /\ trajectory' = <<>>
    /\ timestamps' = <<>>
    /\ current_time' = start_time
    /\ step' = 0

\* lines 203-206
SkipInvalid ==
    /\ AtEntry
    /\ Gate = Returns(FALSE)
    /\ skipped_satellites' = Append(skipped_satellites, Entry.satellite_name)
    /\ idx' = idx + 1
    /\ UNCHANGED <<Inputs, features, pc, Locals, call, ret>>

\* line 203: an exception of is_tle_valid is outside the try of line 208
GateRaises ==
    /\ AtEntry
    /\ Gate.exc # "None"
    /\ pc' = "crashed"
    /\ UNCHANGED <<Inputs, features, skipped_satellites, idx, Locals, call, ret>>

\* lines 209, 226-228: Satrec.twoline2rv raises
SkipUnparsed ==
    /\ AtEntry
    /\ Gate = Returns(TRUE)
    /\ Entry.line2.parse_error
    /\ skipped_satellites' = Append(skipped_satellites, Entry.satellite_name)
    /\ idx' = idx + 1
    /\ UNCHANGED <<Inputs, features, pc, Locals, call, ret>>

\* lines 209-210, 167-170
StartTrajectory ==
    /\ AtEntry
    /\ Gate = Returns(TRUE)
    /\ ~Entry.line2.parse_error
    /\ pc' = "gen"
    /\ ResetLocals
    /\ UNCHANGED <<Inputs, features, skipped_satellites, idx, call, ret>>

\* a rejected point treated like a propagator error: the satellite is skipped
StepPoint_RejectionSkips ==
    /\ InLoop
    /\ error_code(satellites[idx].line2, step + 1) = 0
    /\ LET g == teme_to_latlonalt(satellites[idx].line2, step + 1) IN
       IF is_valid_point(g[1], g[2])
       THEN /\ trajectory' = Append(trajectory, <<g[2], g[1], g[3]>>)
            /\ timestamps' = Append(timestamps, isoformat(current_time))
            /\ current_time' = current_time + time_step_minutes
            /\ step' = step + 1
            /\ UNCHANGED <<skipped_satellites, pc, idx>>
       ELSE /\ skipped_satellites' =
                   Append(skipped_satellites, satellites[idx].satellite_name)
            /\ idx' = idx + 1
            /\ pc' = "loop"
            /\ trajectory' = <<>>
            /\ timestamps' = <<>>
            /\ current_time' = start_time
            /\ step' = 0
    /\ UNCHANGED <<satellites, start_time, duration_hours, time_step_minutes,
                   features, call, ret>>

\* lines 172-181, 185: one iteration with error_code == 0
StepPoint ==
    /\ InLoop
    /\ error_code(Entry.line2, step + 1) = 0
    /\ LET g == teme_to_latlonalt(Entry.line2, step + 1) IN
       IF is_valid_point(g[1], g[2])
       THEN /\ trajectory' = Append(trajectory, <<g[2], g[1], g[3]>>)
            /\ timestamps' = Append(timestamps, isoformat(current_time))
       ELSE UNCHANGED <<trajectory, timestamps>>
    /\ current_time' = current_time + time_step_minutes
    /\ step' = step + 1
    /\ UNCHANGED <<Inputs, features, skipped_satellites, pc, idx, call, ret>>

\* the except of line 226 emitting what was generated before the error
PropagationFailure_EmitsPartial ==
    /\ InLoop
    /\ error_code(satellites[idx].line2, step + 1) # 0
    /\ features' = Append(features,
                          Feature(satellites[idx].satellite_name,
                                  fix_idl_crossings(trajectory), timestamps,
                                  get_launch_group(satellites[idx].line1)))
    /\ idx' = idx + 1
    /\ pc' = "loop"
    /\ trajectory' = <<>>
    /\ timestamps' = <<>>
    /\ current_time' = start_time
    /\ step' = 0
    /\ UNCHANGED <<satellites, start_time, duration_hours, time_step_minutes,
                   skipped_satellites, call, ret>>

\* lines 182-183, 226-228: the RuntimeError reaches the except of line 226
PropagationFailure ==
    /\ InLoop
    /\ error_code(Entry.line2, step + 1) # 0
    /\ skipped_satellites' = Append(skipped_satellites, Entry.satellite_name)
    /\ idx' = idx + 1
    /\ pc' = "loop"
    /\ ResetLocals
    /\ UNCHANGED <<Inputs, features, call, ret>>

\* lines 187-188, 213-225
EmitFeature ==
    /\ pc = "gen"
    /\ step >= total_steps
    /\ features' = Append(features,
                          Feature(Entry.satellite_name, fix_idl_crossings(trajectory),
                                  timestamps, get_launch_group(Entry.line1)))
    /\ idx' = idx + 1
    /\ pc' = "loop"
    /\ ResetLocals
    /\ UNCHANGED <<Inputs, skipped_satellites, call, ret>>

\* lines 230-237
Finish ==
    /\ pc = "loop"
    /\ idx > Len(satellites)
    /\ pc' = "done"
    /\ UNCHANGED <<Inputs, features, skipped_satellites, idx, Locals, call, ret>>

Next ==
    \/ SkipInvalid
    \/ GateRaises
    \/ SkipUnparsed
    \/ StartTrajectory
    \/ StepPoint
    \/ PropagationFailure
    \/ EmitFeature
    \/ Finish

Spec == Init /\ [][Next]_vars

-----------------------------------------------------------------------------
(* Direct calls of the helper functions *)

\* the script's variables while a helper is called on its own
Idle ==
    /\ satellites = <<>>
    /\ start_time = RunDay * 1440
    /\ duration_hours = 1
    /\ time_step_minutes = 20
    /\ features = <<>>
    /\ skipped_satellites = <<>>
    /\ pc = "idle"
    /\ idx = 1
    /\ trajectory = <<>>
    /\ timestamps = <<>>
    /\ current_time = start_time
    /\ step = 0

Script == <<satellites, start_time, duration_hours, time_step_minutes, features,
            skipped_satellites, pc, idx, trajectory, timestamps, current_time, step>>

Pending == call.fn # "none" /\ ret = NoCall

(* fix_idl_crossings *)

LonValues == {-400, -180, -170, 0, 170, 180, 400}

Points == {<<lon, lat, 550000>> : lon \in LonValues, lat \in {-45, 45}}

Trajectories == UNION { [1..n -> Points] : n \in 0..MaxPts }

InitIDL ==
    /\ Idle
    /\ call \in {[fn |-> "fix_idl_crossings", trajectory |-> t] : t \in Trajectories}
    /\ ret = NoCall

CallFixIdl ==
    /\ Pending
    /\ call.fn = "fix_idl_crossings"
    /\ ret' = [fn |-> call.fn, value |-> fix_idl_crossings(call.trajectory)]
    /\ UNCHANGED <<Script, call>>

NextIDL == CallFixIdl

SpecIDL == InitIDL /\ [][NextIDL]_vars

(* is_tle_valid *)

\* <<two-digit year, day of year, minute of the day>> of well-formed epochs
EpochSamples ==
    ({26} \X {275, 276, 277, 306, 307, 340, 341} \X {0, 9, 720, 1431})
        \cup {<<25, 365, 720>>, <<56, 1, 0>>, <<57, 1, 0>>, <<0, 1, 0>>, <<99, 365, 1431>>}

WellFormedLine(e) == Line1Of(GoodDesignator, FormatInt(e[1], 2), FormatDay(e[2], e[3]))

MalformedLines ==
    { ShortLine, Slice(FreshLine, 0, 31), <<>>, NonNumericLine,
      Line1Of(GoodDesignator, <<"A", "6">>, FormatDay(300, 0)),
      Line1Of(GoodDesignator, Blank(2), FormatDay(300, 0)),
      Line1Of(GoodDesignator, FormatInt(26, 2), Blank(12)),
      Line1Of(GoodDesignator, FormatInt(26, 2),
              <<"1", ".", "2", ".", "3">> \o Blank(7)),
      UnrepresentableLine,
      Line1Of(GoodDesignator, FormatInt(26, 2),
              [i \in 1..8 |-> "9"] \o <<".", "0", "0", "0">>) }

\* 2027-01-05
NewYearDay == Ordinal(2027) + 4

ClockReads == {d * 1440 + m : d \in {RunDay, NewYearDay}, m \in {0, 9, 720, 1431}}

InitTLE ==
    /\ Idle
    /\ call \in {[fn |-> "is_tle_valid", line1 |-> l, utcnow |-> n] :
                    l \in {WellFormedLine(e) : e \in EpochSamples} \cup MalformedLines,
                    n \in ClockReads}
    /\ ret = NoCall

CallIsTleValid ==
    /\ Pending
    /\ call.fn = "is_tle_valid"
    /\ ret' = [fn |-> call.fn, value |-> is_tle_valid(call.line1, call.utcnow)]
    /\ UNCHANGED <<Script, call>>

NextTLE == CallIsTleValid

SpecTLE == InitTLE /\ [][NextTLE]_vars

(* get_launch_group *)

Designator(yy, num) == FormatInt(yy, 2) \o FormatInt(num, 3) \o <<"A", " ", " ">>

WellFormedDesignators == {Designator(yy, num) : yy \in 0..99, num \in {1, 74}}

GarbledDesignators ==
    { Blank(8), <<"A", "B", "C", "D", "E", "F", " ", " ">>,
      <<"1", "9">> \o Blank(6), <<" ", "9", "0", "7", "4", "A", " ", " ">> }

DesignatorLines ==
    { Line1Of(d, FormatInt(26, 2), FormatDay(300, 0)) :
        d \in WellFormedDesignators \cup GarbledDesignators }
        \cup { Slice(FreshLine, 0, n) : n \in {0, 9, 10, 12} }

InitLG ==
    /\ Idle
    /\ call \in {[fn |-> "get_launch_group", line1 |-> l] : l \in DesignatorLines}
    /\ ret = NoCall

CallGetLaunchGroup ==
    /\ Pending
    /\ call.fn = "get_launch_group"
    /\ ret' = [fn |-> call.fn, value |-> get_launch_group(call.line1)]
    /\ UNCHANGED <<Script, call>>

NextLG == CallGetLaunchGroup

SpecLG == InitLG /\ [][NextLG]_vars

-----------------------------------------------------------------------------
(* Properties of the script's loop (Spec) *)

FeaturesOf(i) == {j \in 1..Len(features) : features[j].name = i}

SkipsOf(i) == {j \in 1..Len(skipped_satellites) : skipped_satellites[j] = i}

GateOf(i) == is_tle_valid(satellites[i].line1, start_time)

\* entry i reaches generate_trajectory_with_timestamps
Propagated(i) == GateOf(i) = Returns(TRUE) /\ ~satellites[i].line2.parse_error

Increasing(names) ==
    \A j, k \in 1..Len(names) : j < k => names[j] < names[k]

TimeOf(ts) == ts.date * 1440 + ts.hh * 60 + ts.mm

Chronological(stamps) ==
    \A j \in 1..(Len(stamps) - 1) : TimeOf(stamps[j]) < TimeOf(stamps[j + 1])

\* C1: the loop reaches the end of every catalog, and then every entry has
\* exactly one feature or exactly one entry of the skipped list, features in
\* catalog order and skipped names in the order of skipping.
C1_EveryEntrySettled ==
    /\ pc # "crashed"
    /\ pc = "done" =>
         /\ \A i \in 1..Len(satellites) :
               Cardinality(FeaturesOf(i)) + Cardinality(SkipsOf(i)) = 1
         /\ Increasing([j \in 1..Len(features) |-> features[j].name])
         /\ Increasing(skipped_satellites)

\* entry i passes the gate and sgp4 reports an error at one of its steps
FailsAtSomeStep(i) ==
    Propagated(i) /\ satellites[i].line2.err_at \in 1..total_steps

C3_Settled ==
    \A i \in 1..Len(satellites) :
        (i < idx /\ FailsAtSomeStep(i)) =>
            FeaturesOf(i) = {} /\ Cardinality(SkipsOf(i)) = 1

C3_Step ==
    (InLoop /\ error_code(Entry.line2, step + 1) # 0) =>
        /\ features' = features
        /\ skipped_satellites' = Append(skipped_satellites, Entry.satellite_name)

\* C3: a non-zero error code at any step of a satellite leaves the features
\* collected so far unchanged and appends the satellite's name to the skipped
\* list; once processed, such a satellite has no feature and is in the skipped
\* list exactly once.
C3_FailureSkipsWhole == [](C3_Settled) /\ [][C3_Step]_vars

\* C3 witness: a satellite whose third sgp4 call failed, after a point had been
\* appended, has been skipped while an earlier satellite's feature is kept.
C3_Witness ==
    \E i \in 1..Len(satellites) :
        /\ i < idx
        /\ FailsAtSomeStep(i)
        /\ satellites[i].line2.err_at = 3
        /\ SkipsOf(i) # {}
        /\ \E j \in 1..(i - 1) : FeaturesOf(j) # {}

\* the point the k-th iteration appends
PointAt(profile, k) ==
    LET g == teme_to_latlonalt(profile, k) IN <<g[2], g[1], g[3]>>

\* n is floor(duration_hours * 60 / time_step_minutes)
IsFloorOfSteps(n) ==
    /\ n * time_step_minutes <= duration_hours * 60
    /\ (n + 1) * time_step_minutes > duration_hours * 60

\* C9: the generator returns only after exactly floor(duration * 60 / step)
\* iterations; its timestamp and point lists have the same length, at most
\* the number of iterations, the timestamps strictly increase, and the i-th
\* timestamp and the i-th point come from the same iteration.
C9_TimestampsPairPoints ==
    /\ pc = "gen" =>
         /\ Len(timestamps) = Len(trajectory)
         /\ Len(trajectory) <= step
         /\ step * time_step_minutes <= duration_hours * 60
         /\ Chronological(timestamps)
         /\ \A i \in 1..Len(timestamps) :
               \E k \in 1..step :
                   /\ timestamps[i] = isoformat(start_time + (k - 1) * time_step_minutes)
                   /\ trajectory[i] = PointAt(Entry.line2, k)
         /\ ENABLED EmitFeature => IsFloorOfSteps(step)
    /\ \A j \in 1..Len(features) :
         /\ Len(features[j].coordinates) = Len(features[j].timestamps)
         /\ Len(features[j].timestamps) * time_step_minutes <= duration_hours * 60
         /\ Chronological(features[j].timestamps)

\* C9 witness: the generator is about to return after three iterations of which
\* the second was dropped, with two timestamps on different days.
C9_Witness ==
    /\ pc = "gen"
    /\ step = 3
    /\ ENABLED EmitFeature
    /\ Len(timestamps) = 2
    /\ timestamps[1].date # timestamps[2].date

\* every sgp4 call of entry i returns error code 0
AllCallsSucceed(i) ==
    Propagated(i) /\ \A k \in 1..total_steps : error_code(satellites[i].line2, k) = 0

AllPointsRejected(i) ==
    \A k \in 1..total_steps :
        LET g == teme_to_latlonalt(satellites[i].line2, k) IN ~is_valid_point(g[1], g[2])

\* C10: a processed satellite that passed the gate, was accepted by the
\* propagator and whose sgp4 calls all returned 0 has exactly one feature and no
\* entry in the skipped list, whatever is_valid_point rejected; if every step
\* was rejected, the feature's coordinate and timestamp lists are empty.
C10_RejectionNeverSkips ==
    \A i \in 1..Len(satellites) :
        (i < idx /\ AllCallsSucceed(i)) =>
            /\ Cardinality(FeaturesOf(i)) = 1
            /\ SkipsOf(i) = {}
            /\ AllPointsRejected(i) =>
                 \A j \in FeaturesOf(i) :
                     features[j].coordinates = <<>> /\ features[j].timestamps = <<>>

\* C10 witness: a processed satellite all of whose steps were rejected has a
\* feature; another one lost only some of its steps.
C10_Witness ==
    /\ \E i \in 1..Len(satellites) :
          i < idx /\ AllCallsSucceed(i) /\ AllPointsRejected(i) /\ FeaturesOf(i) # {}
    /\ \E i \in 1..Len(satellites) :
          /\ i < idx /\ AllCallsSucceed(i) /\ satellites[i].line2.drop = "even"
          /\ \E j \in FeaturesOf(i) : Len(features[j].coordinates) \in 1..(total_steps - 1)

-----------------------------------------------------------------------------
(* Properties of is_tle_valid (SpecTLE) *)

Returned == ret # NoCall

\* C2: is_tle_valid raises nothing, whatever line1 is, and returns False for
\* a malformed line1.
C2_NeverRaises ==
    Returned =>
        /\ ret.value.exc = "None"
        /\ call.line1 \in MalformedLines => ret.value = Returns(FALSE)

\* the epoch a well-formed sample denotes, in minutes
EpochMinutes(e) ==
    (Ordinal(IF e[1] < 57 THEN 2000 + e[1] ELSE 1900 + e[1]) + e[2] - 1) * 1440 + e[3]

\* C8: on a well-formed line1, is_tle_valid returns True exactly when the
\* clock reading minus the epoch is strictly less than 30 days.
C8_StrictThirtyDays ==
    \A e \in EpochSamples :
        (Returned /\ call.line1 = WellFormedLine(e)) =>
            /\ ret.value.exc = "None"
            /\ ret.value.val <=> (call.utcnow - EpochMinutes(e) < 30 * 1440)

\* C8 witness: an element set 9 minutes short of 30 days old has been found
\* valid.
C8_Witness ==
    \E e \in EpochSamples :
        /\ Returned
        /\ call.line1 = WellFormedLine(e)
        /\ call.utcnow - EpochMinutes(e) = 30 * 1440 - 9
        /\ ret.value = Returns(TRUE)

-----------------------------------------------------------------------------
(* Properties of fix_idl_crossings (SpecIDL) *)

Abs(x) == IF x < 0 THEN -x ELSE x

\* the GeodeticPoint invariant on the longitudes of a trajectory
LongitudesInRange(t) == \A i \in 1..Len(t) : -180 <= t[i][1] /\ t[i][1] <= 180

\* C4: for input longitudes within [-180, 180], consecutive output longitudes
\* differ by at most 180 degrees.
C4_NoJumpAbove180 ==
    (Returned /\ LongitudesInRange(call.trajectory)) =>
        \A i \in 1..(Len(ret.value) - 1) :
            Abs(ret.value[i + 1][1] - ret.value[i][1]) <= 180

\* C4 witness: an in-range input of three points that jumps by more than 180
\* degrees in both directions has been corrected.
C4_Witness ==
    /\ Returned
    /\ LongitudesInRange(call.trajectory)
    /\ Len(call.trajectory) = 3
    /\ call.trajectory[2][1] - call.trajectory[1][1] > 180
    /\ call.trajectory[3][1] - call.trajectory[2][1] < -180

\* C5: the output has the input's length, every output longitude is the input
\* longitude plus a multiple of 360, the first longitude is unchanged, and
\* latitudes and altitudes are unchanged.
C5_CongruentMod360 ==
    Returned =>
        /\ Len(ret.value) = Len(call.trajectory)
        /\ \A i \in 1..Len(call.trajectory) :
              /\ (ret.value[i][1] - call.trajectory[i][1]) % 360 = 0
              /\ ret.value[i][2] = call.trajectory[i][2]
              /\ ret.value[i][3] = call.trajectory[i][3]
        /\ call.trajectory # <<>> => ret.value[1][1] = call.trajectory[1][1]

\* C5 witness: an in-range input whose output has a longitude beyond 180
\* degrees: the result is not brought back into [-180, 180].
C5_Witness ==
    /\ Returned
    /\ LongitudesInRange(call.trajectory)
    /\ \E i \in 1..Len(ret.value) : ret.value[i][1] > 180

-----------------------------------------------------------------------------
(* Properties of get_launch_group (SpecLG) *)

DesignatorOf(line1) == Slice(line1, 9, 17)

\* C6: for a designator with two-digit year yy, the label's year is in the
\* 2000s exactly when yy < 57, and is the year is_tle_valid gives to yy.
C6_SameCenturyRule ==
    (Returned /\ DesignatorOf(call.line1) \in WellFormedDesignators) =>
        LET yy == ParseInt(Slice(DesignatorOf(call.line1), 0, 2)).v
            year == ParseInt(Slice(ret.value, 0, 4)).v
        IN  /\ year = epoch_year(yy)
            /\ year >= 2000 <=> yy < 57

IsLabel(s) ==
    /\ Len(s) = 15
    /\ AllDigits(Slice(s, 0, 4))
    /\ Slice(s, 4, 12) = LaunchInfix
    /\ AllDigits(Slice(s, 12, 15))

\* C7: a well-formed designator gives a label "{4-digit year}-Launch-{3-digit
\* sequence}", and a blank, non-numeric or truncated one gives "Unknown".
C7_SentinelWhenGarbled ==
    Returned =>
        IF DesignatorOf(call.line1) \in WellFormedDesignators
        THEN IsLabel(ret.value)
        ELSE ret.value = Unknown

====
